---- MODULE Spec2Model ----
(***************************************************************************)
(* A model of src/app.py: the Streamlit session of the legal discovery     *)
(* assistant.  The session state is lang, corpus and chat_history; one     *)
(* script run handles one widget event: the language button, the sync      *)
(* button or a submitted chat query.  A query run writes the session state *)
(* twice, the user entry at line 278 and the assistant entry at line 299,  *)
(* and blocks in between (model.encode, index.search, requests.post); the  *)
(* script runner stops a run at its next access to st.session_state when   *)
(* another event of the session is waiting, so the run is modelled stage   *)
(* by stage and any event may arrive between two stages.  The remaining    *)
(* variables record what the current run did with its collaborators        *)
(* (Drive, the embedding model, the FAISS index, the generation service).  *)
(***************************************************************************)
EXTENDS Integers, Sequences, FiniteSets

VARIABLES
    service,       \* get_gdrive_service(): TRUE when a Drive client exists
    lang,          \* st.session_state.lang
    corpus,        \* st.session_state.corpus
    chat_history,  \* st.session_state.chat_history
    synced,        \* the Drive listing of the last sync that assigned corpus
    index,         \* the vectors added to the FAISS index by the last query
    matches,       \* the local `matches` of the last query
    sent,          \* every request posted to the generation service, in order
    last           \* the current script run: its event, its stage, its locals

vars == <<service, lang, corpus, chat_history, synced, index, matches, sent, last>>

(***************************************************************************)
(* Bounds of the model.                                                    *)
(***************************************************************************)
MaxQueries == 2    \* chat queries submitted in one session

(***************************************************************************)
(* Program constants.                                                      *)
(***************************************************************************)
MinChars == 20     \* a page is kept when len(text.strip()) > 20
K == 3             \* index.search(..., k=3)

ErrorString == "Technical error: Could not reach the AI Intelligence engine."

(***************************************************************************)
(* Text: a string is the sequence of its code points (97 is "a", 98 "b").  *)
(***************************************************************************)
Rep(c, n) == [i \in 1..n |-> c]

\* the characters str.strip() removes: those str.isspace() holds of
IsSpace(c) ==
    \/ 9 <= c /\ c <= 13
    \/ 28 <= c /\ c <= 32
    \/ c \in {133, 160, 5760}
    \/ 8192 <= c /\ c <= 8202
    \/ c \in {8232, 8233, 8239, 8287, 12288}

RECURSIVE LStrip(_)
LStrip(s) == IF s # <<>> /\ IsSpace(Head(s)) THEN LStrip(Tail(s)) ELSE s

RECURSIVE RStrip(_)
RStrip(s) ==
    IF s # <<>> /\ IsSpace(s[Len(s)]) THEN RStrip(SubSeq(s, 1, Len(s) - 1)) ELSE s

\* str.strip(): drop the leading and the trailing whitespace
Strip(s) == RStrip(LStrip(s))

Min(a, b) == IF a <= b THEN a ELSE b

Range(s) == {s[i] : i \in 1..Len(s)}

(***************************************************************************)
(* The Drive folder: the PDF files the listing can return.  A file whose   *)
(* status is not "ok" makes its download (next_chunk) or PdfReader raise,  *)
(* and either exception leaves download_and_process_drive_docs the same    *)
(* way.                                                                    *)
(***************************************************************************)
\* page 1 is padded with a space, a line feed and a carriage return, page 2
\* is short, page 3 is blank (space, tab, form feed)
DocA ==
    [name |-> "A.pdf", link |-> "https://drive/A", status |-> "ok",
     pages |-> << <<32, 10>> \o Rep(97, 21) \o <<13>>,
                  Rep(97, 5),
                  <<32, 9, 12>>,
                  Rep(97, 11) \o <<32>> \o Rep(98, 11) >>]

\* page 2 holds 20 characters between a no-break space and a form feed,
\* page 3 is empty
DocB ==
    [name |-> "B.pdf", link |-> "https://drive/B", status |-> "ok",
     pages |-> << Rep(98, 21) \o <<10>>,
                  <<160>> \o Rep(97, 20) \o <<12>>,
                  <<>> >>]

DocC ==
    [name |-> "C.pdf", link |-> "https://drive/C", status |-> "fetch_error",
     pages |-> <<>>]

\* the folder, in the order the Drive listing returns its files
Folder == <<DocA, DocC, DocB>>

\* results.get('files', []): the files present at a sync, in folder order
Listing(present) ==
    LET f[i \in 0..Len(Folder)] ==
            IF i = 0 THEN <<>>
            ELSE IF i \in present THEN Append(f[i - 1], Folder[i]) ELSE f[i - 1]
    IN  f[Len(Folder)]

Listings == {Listing(present) : present \in SUBSET (1..Len(Folder))}

(***************************************************************************)
(* download_and_process_drive_docs                                         *)
(***************************************************************************)
\* if text and len(text.strip()) > 20
KeepPage(text) == Len(text) > 0 /\ Len(Strip(text)) > MinChars

PageRecord(item, i) ==
    [source |-> item.name, page |-> i, content |-> Strip(item.pages[i]),
     link |-> item.link]

RECURSIVE ExtractPages(_, _)
ExtractPages(item, i) ==
    IF i > Len(item.pages) THEN <<>>
    ELSE (IF KeepPage(item.pages[i]) THEN <<PageRecord(item, i)>> ELSE <<>>)
         \o ExtractPages(item, i + 1)

\* the loop over items; an exception leaves the function without a result
RECURSIVE ProcessItems(_)
ProcessItems(items) ==
    IF items = <<>> THEN [raised |-> FALSE, docs |-> <<>>]
    ELSE LET item == Head(items)
         IN  IF item.status # "ok" THEN [raised |-> TRUE, docs |-> <<>>]
             ELSE LET rest == ProcessItems(Tail(items))
                  IN  [raised |-> rest.raised,
                       docs |-> IF rest.raised THEN <<>>
                                ELSE ExtractPages(item, 1) \o rest.docs]

download_and_process_drive_docs(items) == ProcessItems(items)

(***************************************************************************)
(* The record of a script run.  Its stage is "done" when the run reached   *)
(* its end, "warned" when it stopped at the empty-corpus warning, "raised" *)
(* when an exception left it, and for a query run under way "user" (user   *)
(* entry appended), "checked" (the corpus found non-empty), "searched"     *)
(* (index searched) or "posted" (call_gemini returned).  A new event       *)
(* replaces the record: the run it describes, if under way, is stopped.    *)
(***************************************************************************)
NoResp == [kind |-> "none", status |-> 0, json |-> FALSE, body |-> [none |-> TRUE]]

Idle(op) ==
    [op |-> op, stage |-> "done", raised |-> FALSE, warned |-> FALSE,
     encode |-> 0, search |-> 0, gemini |-> 0, listing |-> <<>>, query |-> <<>>,
     labels |-> <<>>, resp |-> NoResp, answer |-> ""]

Init ==
    /\ service \in BOOLEAN
    /\ lang = "ar"
    /\ corpus = <<>>
    /\ chat_history = <<>>
    /\ synced = <<>>
    /\ index = <<>>
    /\ matches = <<>>
    /\ sent = <<>>
    /\ last = Idle("init")

(***************************************************************************)
(* The language button: lines 225-227.  Like every event, it may arrive    *)
(* while a query run is under way, which stops that run.                   *)
(***************************************************************************)
ToggleLang ==
    /\ lang' = IF lang = "ar" THEN "en" ELSE "ar"
    /\ last' = Idle("toggle")
    /\ UNCHANGED <<service, corpus, chat_history, synced, index, matches, sent>>

(***************************************************************************)
(* The sync button: lines 234-238.                                         *)
(***************************************************************************)
\* a faulty variant: the extracted pages added to the pages already held
MergedCorpus(old, extracted) == old \o extracted

\* st.session_state.corpus = download_and_process_drive_docs(service)
SyncedCorpus(old, extracted) == extracted

Sync ==
    \E items \in Listings :
        LET r == download_and_process_drive_docs(items)
        IN  /\ IF service /\ ~r.raised
               THEN /\ corpus' = SyncedCorpus(corpus, r.docs)
                    /\ synced' = items
               ELSE UNCHANGED <<corpus, synced>>
            /\ last' = [Idle("sync") EXCEPT
                           !.stage = IF service /\ r.raised THEN "raised" ELSE "done",
                           !.raised = service /\ r.raised,
                           !.listing = items]
            /\ UNCHANGED <<service, lang, chat_history, index, matches, sent>>

(***************************************************************************)
(* The embedding model and the FAISS index: lines 286-292.                 *)
(***************************************************************************)
Count(s, c) == Cardinality({i \in 1..Len(s) : s[i] = c})

\* model.encode of one text: a fixed vector per text (here the letter counts)
Encode(text) == <<Count(text, 97), Count(text, 98)>>

\* a faulty variant: the index of an earlier query kept instead of rebuilt
BuildIndexCached(c) ==
    IF index # <<>> THEN index ELSE [i \in 1..Len(c) |-> Encode(c[i].content)]

\* model.encode([d['content'] for d in corpus]); index.add(embeddings)
BuildIndex(c) == [i \in 1..Len(c) |-> Encode(c[i].content)]

\* IndexFlatL2: the squared Euclidean distance
L2(u, v) == (u[1] - v[1]) * (u[1] - v[1]) + (u[2] - v[2]) * (u[2] - v[2])

\* index.search(q, k): the labels I[0], 0-based, nearest first, padded with -1
\* when the index holds fewer than k vectors; the order among equal distances
\* is left to the library
IndexSearch(ix, q, k) ==
    LET n == Len(ix)
        m == Min(k, n)
        d(j) == L2(ix[j + 1], q)
    IN  {s \in [1..k -> -1..(n - 1)] :
            /\ \A i \in 1..m : s[i] >= 0
            /\ \A i \in (m + 1)..k : s[i] = -1
            /\ \A i, j \in 1..m : i # j => s[i] # s[j]
            /\ \A i \in 1..(m - 1) : d(s[i]) <= d(s[i + 1])
            /\ \A j \in 0..(n - 1) :
                 (\A i \in 1..m : s[i] # j) => d(j) >= d(s[m])}

\* Python's list[idx]: a negative idx counts from the end, anything outside
\* -len..len-1 raises IndexError
PyInRange(seq, idx) == -Len(seq) <= idx /\ idx < Len(seq)

PyIndex(seq, idx) == IF idx >= 0 THEN seq[idx + 1] ELSE seq[Len(seq) + idx + 1]

(***************************************************************************)
(* call_gemini: lines 87-106.                                              *)
(***************************************************************************)
AnswerText == "The notice period is 30 days."

WellFormed == [candidates |-> <<[content |-> [parts |-> <<[text |-> AnswerText]>>]]>>]

Http(status, json, body) ==
    [kind |-> "http", status |-> status, json |-> json, body |-> body]

\* what requests.post can do: time out, or return a response
Responses ==
    { [kind |-> "timeout", status |-> 0, json |-> FALSE, body |-> [none |-> TRUE]],
      Http(200, TRUE, WellFormed),
      Http(500, TRUE, [error |-> [code |-> 500]]),
      Http(503, TRUE, WellFormed),
      Http(200, TRUE, [candidates |-> <<>>]),
      Http(200, TRUE, [candidates |-> <<[finishReason |-> "SAFETY"]>>]),
      Http(429, FALSE, [none |-> TRUE]) }

\* res.json()['candidates'][0]['content']['parts'][0]['text'] evaluates
HasText(resp) ==
    /\ resp.kind = "http"
    /\ resp.json
    /\ "candidates" \in DOMAIN resp.body
    /\ Len(resp.body.candidates) >= 1
    /\ "content" \in DOMAIN resp.body.candidates[1]
    /\ "parts" \in DOMAIN resp.body.candidates[1].content
    /\ Len(resp.body.candidates[1].content.parts) >= 1
    /\ "text" \in DOMAIN resp.body.candidates[1].content.parts[1]

Payload(query, context) == [query |-> query, context |-> context]

\* one requests.post; the answer text, or the error string on any exception
call_gemini(query, context, resp) ==
    IF HasText(resp)
    THEN [answer |-> resp.body.candidates[1].content.parts[1].text,
          raised |-> FALSE, posts |-> <<Payload(query, context)>>]
    ELSE [answer |-> ErrorString, raised |-> FALSE,
          posts |-> <<Payload(query, context)>>]

(***************************************************************************)
(* A submitted chat query: lines 277-304.                                  *)
(***************************************************************************)
Queries == { <<97, 98>> }

UserTurns == Cardinality({i \in 1..Len(chat_history) : chat_history[i].role = "user"})

\* chat_history.append({"role": "user", "content": query})
AppendUser(history, query) == Append(history, [role |-> "user", content |-> query])

\* a faulty variant: the empty-corpus check left out
NeverEmpty(c) == FALSE

\* if not st.session_state.corpus
NoDocuments(c) == c = <<>>

\* ctx_str: one "Source: <source> P.<page>\n<content>" block per match
BuildContext(ms) ==
    [i \in 1..Len(ms) |->
        [source |-> ms[i].source, page |-> ms[i].page, content |-> ms[i].content]]

\* a faulty variant: no citations beside the error string
AssistantEntryNoRefsOnError(answer, ms) ==
    [role |-> "assistant", content |-> answer,
     metadata |-> IF answer = ErrorString THEN <<>> ELSE ms]

\* {"role": "assistant", "content": answer, "metadata": matches}
AssistantEntry(answer, ms) ==
    [role |-> "assistant", content |-> answer, metadata |-> ms]

\* lines 277-278: a query arrives and its user entry is appended
QueryStart ==
    /\ UserTurns < MaxQueries
    /\ \E query \in Queries :
        /\ chat_history' = AppendUser(chat_history, query)
        /\ last' = [Idle("query") EXCEPT !.stage = "user", !.query = query]
        /\ UNCHANGED <<service, lang, corpus, synced, index, matches, sent>>

\* lines 280-284: the empty-corpus check; st.warning(...) and st.stop() on an
\* empty corpus, the spinner entered otherwise
QueryCheck ==
    /\ last.op = "query" /\ last.stage = "user"
    /\ last' = IF NoDocuments(corpus)
               THEN [last EXCEPT !.stage = "warned", !.warned = TRUE]
               ELSE [last EXCEPT !.stage = "checked"]
    /\ UNCHANGED <<service, lang, corpus, chat_history, synced, index, matches, sent>>

\* lines 286-292: the corpus and the query encoded, the index built and
\* searched; embeddings.shape[1] raises IndexError for an empty corpus
QuerySearch ==
    /\ last.op = "query" /\ last.stage = "checked"
    /\ IF corpus = <<>>
       THEN /\ last' = [last EXCEPT !.stage = "raised", !.raised = TRUE,
                                    !.encode = 1]
            /\ UNCHANGED index
       ELSE LET ix == BuildIndex(corpus)
            IN  \E I \in IndexSearch(ix, Encode(last.query), K) :
                   /\ index' = ix
                   /\ last' = [last EXCEPT !.stage = "searched", !.encode = 2,
                                           !.search = 1, !.labels = I]
    /\ UNCHANGED <<service, lang, corpus, chat_history, synced, matches, sent>>

\* lines 293-297: the matches read from the corpus, the context built and
\* call_gemini called
QueryGenerate ==
    /\ last.op = "query" /\ last.stage = "searched"
    /\ IF \E i \in 1..K : ~PyInRange(corpus, last.labels[i])
       THEN \* IndexError leaves the run
            /\ last' = [last EXCEPT !.stage = "raised", !.raised = TRUE]
            /\ UNCHANGED <<matches, sent>>
       ELSE \E resp \in Responses :
               LET ms == [i \in 1..K |-> PyIndex(corpus, last.labels[i])]
                   g == call_gemini(last.query, BuildContext(ms), resp)
               IN  /\ matches' = ms
                   /\ sent' = sent \o g.posts
                   /\ last' = [last EXCEPT !.stage = "posted", !.raised = g.raised,
                                           !.gemini = Len(g.posts), !.resp = resp,
                                           !.answer = g.answer]
    /\ UNCHANGED <<service, lang, corpus, chat_history, synced, index>>

\* lines 299-304: the assistant entry, then st.rerun()
QueryFinish ==
    /\ last.op = "query" /\ last.stage = "posted"
    /\ chat_history' = Append(chat_history, AssistantEntry(last.answer, matches))
    /\ last' = [last EXCEPT !.stage = "done"]
    /\ UNCHANGED <<service, lang, corpus, synced, index, matches, sent>>

Next ==
    \/ ToggleLang
    \/ Sync
    \/ QueryStart
    \/ QueryCheck
    \/ QuerySearch
    \/ QueryGenerate
    \/ QueryFinish

Spec == Init /\ [][Next]_vars

(***************************************************************************)
(* Definitions the properties are stated with.                             *)
(***************************************************************************)
Assistant(e) == e.role = "assistant"

\* the assistant entries of the chat history, in order
Answers == SelectSeq(chat_history, Assistant)

\* the positions of the non-whitespace characters of a text
NonSpace(t) == {i \in 1..Len(t) : ~IsSpace(t[i])}

First(S) == CHOOSE i \in S : \A j \in S : i <= j

Final(S) == CHOOSE i \in S : \A j \in S : j <= i

\* the length of t between its first and its last non-whitespace character
TrimLen(t) ==
    LET S == NonSpace(t)
    IN  IF S = {} THEN 0 ELSE Final(S) - First(S) + 1

\* c is t without its leading and trailing whitespace
IsTrimOf(c, t) ==
    LET S == NonSpace(t)
    IN  IF S = {} THEN c = <<>>
        ELSE LET lo == First(S)
                 hi == Final(S)
             IN  /\ Len(c) = hi - lo + 1
                 /\ \A k \in 1..Len(c) : c[k] = t[lo + k - 1]

\* the page records a listing yields: one per page with more than MinChars
\* characters after trimming
ExtractedPages(items) ==
    UNION {{[source |-> items[d].name, page |-> i,
             content |-> Strip(items[d].pages[i]), link |-> items[d].link] :
               i \in {j \in 1..Len(items[d].pages) :
                        TrimLen(items[d].pages[j]) > MinChars}} :
           d \in 1..Len(items)}

\* the current run is a query run under way
InRun == last.op = "query" /\ last.stage \in {"user", "checked", "searched", "posted"}

\* the current run is a query run that built its match set
HasMatches == last.op = "query" /\ last.stage \in {"posted", "done"}

\* the current run is a query run that reached its end
Answered == last.op = "query" /\ last.stage = "done"

(***************************************************************************)
(* C1: the corpus holds exactly the pages extracted by the most recent     *)
(* successful sync, each once: nothing of an earlier listing remains.      *)
(***************************************************************************)
C1_CorpusIsLastSync ==
    /\ Range(corpus) = ExtractedPages(synced)
    /\ Len(corpus) = Cardinality(ExtractedPages(synced))

\* B.pdf was synced after A.pdf had been synced and queried
C1_Witness ==
    /\ last.op = "sync"
    /\ synced = <<DocB>>
    /\ Len(corpus) = 1
    /\ \E i \in 1..Len(chat_history) :
          /\ Assistant(chat_history[i])
          /\ chat_history[i].metadata[1].source = "A.pdf"

(***************************************************************************)
(* C2: a query over a corpus of n >= 1 pages retrieves exactly min(k, n)   *)
(* matches, by non-decreasing distance, no page twice.                     *)
(***************************************************************************)
C2_TopK ==
    HasMatches =>
        /\ Len(matches) = Min(K, Len(corpus))
        /\ \A i, j \in 1..Len(matches) : i # j => matches[i] # matches[j]
        /\ \A i \in 1..(Len(matches) - 1) :
              L2(Encode(matches[i].content), Encode(last.query))
                 <= L2(Encode(matches[i + 1].content), Encode(last.query))

(***************************************************************************)
(* C3: a query submitted while the corpus is empty invokes neither the     *)
(* embedding model, the index nor the generation service: past its user    *)
(* entry the run goes nowhere but to the warning, where it stops.          *)
(***************************************************************************)
C3_EmptyCorpusShortCircuits ==
    (last.op = "query" /\ corpus = <<>>) =>
        /\ last.stage \in {"user", "warned"}
        /\ last.warned <=> last.stage = "warned"
        /\ ~last.raised
        /\ last.encode = 0
        /\ last.search = 0
        /\ last.gemini = 0

\* a query against an empty corpus, after an answered one
C3_Witness ==
    /\ last.op = "query"
    /\ corpus = <<>>
    /\ last.stage = "warned"
    /\ last.warned
    /\ Len(sent) = 1

(***************************************************************************)
(* C4: call_gemini never raises; a timeout, a non-2xx response or a        *)
(* malformed body gives the error string, and model text is returned only  *)
(* for a successful, well-formed response.                                 *)
(***************************************************************************)
Success(resp) == resp.kind = "http" /\ resp.status \in 200..299 /\ HasText(resp)

C4_FailSoft ==
    (last.op = "query" /\ last.gemini > 0) =>
        /\ ~last.raised
        /\ ~Success(last.resp) => last.answer = ErrorString
        /\ last.answer # ErrorString => Success(last.resp)

(***************************************************************************)
(* C5: the citations stored with every assistant entry are the match set   *)
(* whose blocks made the context sent to the generator, in the same order, *)
(* whether the call gave an answer or the error string.                    *)
(***************************************************************************)
C5_CitationsAreMatches ==
    /\ \A j \in 1..Len(chat_history) :
          Assistant(chat_history[j]) =>
             /\ j > 1
             /\ \E r \in 1..Len(sent) :
                   LET md == chat_history[j].metadata
                       ctx == sent[r].context
                   IN  /\ sent[r].query = chat_history[j - 1].content
                       /\ Len(md) = Len(ctx)
                       /\ \A i \in 1..Len(md) :
                             /\ md[i].source = ctx[i].source
                             /\ md[i].page = ctx[i].page
                             /\ md[i].content = ctx[i].content
    /\ Answered =>
          LET md == chat_history[Len(chat_history)].metadata
              ctx == sent[Len(sent)].context
          IN  /\ md = matches
              /\ Len(md) = Len(ctx)
              /\ \A i \in 1..Len(md) :
                    /\ md[i].source = ctx[i].source
                    /\ md[i].page = ctx[i].page
                    /\ md[i].content = ctx[i].content

\* a generation call that failed, its entry still carrying the k citations
C5_Witness ==
    /\ Answered
    /\ last.resp.kind = "timeout"
    /\ chat_history[Len(chat_history)].content = ErrorString
    /\ Len(chat_history[Len(chat_history)].metadata) = K

(***************************************************************************)
(* C6: when one of several listed documents fails to download or parse,    *)
(* the sync still ingests the pages of the others and does not fail.       *)
(***************************************************************************)
C6_OthersIngested ==
    (last.op = "sync" /\ service /\ Len(last.listing) >= 2
        /\ \E d \in 1..Len(last.listing) : last.listing[d].status # "ok") =>
        /\ ~last.raised
        /\ \A d \in 1..Len(last.listing) :
              last.listing[d].status = "ok" =>
                 ExtractedPages(<<last.listing[d]>>) \subseteq Range(corpus)

(***************************************************************************)
(* C7: every page whose trimmed text is non-empty has a record holding the *)
(* trimmed text, and no page of trimmed length zero has one.               *)
(***************************************************************************)
C7_NonEmptyStored ==
    \A d \in 1..Len(synced) : \A i \in 1..Len(synced[d].pages) :
        LET t == synced[d].pages[i]
            recs == {p \in Range(corpus) : p.source = synced[d].name /\ p.page = i}
        IN  /\ TrimLen(t) > 0 => \E p \in recs : IsTrimOf(p.content, t)
            /\ TrimLen(t) = 0 => recs = {}

(***************************************************************************)
(* C8: the index a query searches holds one vector per page of the corpus  *)
(* as it stands at that query, in corpus order, and every match is a page  *)
(* of that corpus, so of the listing synced last.                          *)
(***************************************************************************)
C8_IndexIsCurrentCorpus ==
    /\ (last.op = "query" /\ last.stage \in {"searched", "posted", "done"}) =>
          /\ Len(index) = Len(corpus)
          /\ \A i \in 1..Len(corpus) : index[i] = Encode(corpus[i].content)
    /\ HasMatches =>
          \A i \in 1..Len(matches) :
              /\ matches[i] \in Range(corpus)
              /\ \E d \in 1..Len(synced) : synced[d].name = matches[i].source
    /\ last.op = "query" => ~last.raised

\* a query answered from B.pdf after the corpus of A.pdf, queried earlier,
\* was replaced
C8_Witness ==
    /\ Answered
    /\ synced = <<DocB>>
    /\ Len(Answers) = 2
    /\ Answers[1].metadata[1].source = "A.pdf"
    /\ Answers[2].metadata[1].source = "B.pdf"

(***************************************************************************)
(* C9: a query posts one request to the generation service when the corpus *)
(* is non-empty and none when it is empty; no other run posts any; the     *)
(* result of the request, the error string of a failed call included, is   *)
(* recorded as the answer of that query.  Stated of the requests posted so *)
(* far: each belongs to an entry of the history, or to the run under way.  *)
(***************************************************************************)
C9_OneRequestPerQuery ==
    /\ Len(sent) <= UserTurns
    /\ last.gemini <= 1
    /\ last.op # "query" => last.gemini = 0
    /\ (last.op = "query" /\ corpus = <<>>) => last.gemini = 0
    /\ Answered => last.gemini = 1
    /\ Len(sent) = Len(Answers) + (IF last.op = "query" /\ last.stage = "posted"
                                   THEN 1 ELSE 0)
    /\ (Answered /\ ~HasText(last.resp)) =>
          chat_history[Len(chat_history)].content = ErrorString

(***************************************************************************)
(* C10: the chat history only grows; a query appends its user entry, then  *)
(* one assistant entry exactly when the corpus was non-empty; every        *)
(* assistant entry directly follows a user entry; sync and the language    *)
(* toggle leave the history as it is.  A query run under way therefore     *)
(* goes on to its warning or its assistant entry: no other run takes its   *)
(* place.                                                                  *)
(***************************************************************************)
C10_Step ==
    LET n == Len(chat_history)
        m == Len(chat_history')
    IN  /\ m >= n
        /\ SubSeq(chat_history', 1, n) = chat_history
        /\ last'.op # "query" => m = n
        /\ (last'.op = "query" /\ last'.stage = "user") =>
              /\ m = n + 1
              /\ chat_history'[m] = [role |-> "user", content |-> last'.query]
        /\ InRun =>
              /\ last'.op = "query"
              /\ last'.stage \in {"warned", "checked", "searched", "posted", "done"}
              /\ last.stage = "user" => (last'.stage = "warned" <=> corpus = <<>>)
              /\ last'.stage = "done" =>
                    (m = n + 1 /\ Assistant(chat_history'[m]))
              /\ last'.stage # "done" => m = n

C10_Paired ==
    \A i \in 1..Len(chat_history) :
        Assistant(chat_history[i]) => (i > 1 /\ chat_history[i - 1].role = "user")

C10_HistoryAppendOnly == [][C10_Step]_vars /\ []C10_Paired
====
